---- MODULE Spec2Model ----
(***************************************************************************)
(* The research pipeline of backend/services/research_agent.py and its     *)
(* HTTP entry point in backend/main.py: decomposition of a question into   *)
(* sub-questions, the three-tier web search with its fallbacks, the        *)
(* summarizer, the vector store and the orchestrating conduct_research.    *)
(*                                                                         *)
(* Text is a sequence of non-empty pieces (TLA+ strings).  Questions and   *)
(* queries are written one character per piece, so lower(), substring      *)
(* tests and split('/') are computed character by character.               *)
(* A Python value is a record [kind, chars, items]: kind is the Python     *)
(* type ("str", "int", "null", "dict", "list"), chars the text of a str    *)
(* (or the digits of an int), items the elements of a list.                *)
(***************************************************************************)
EXTENDS Integers, Sequences, FiniteSets, TLC

\* ------------------------------------------------------------- bounds
\* Largest max_results a request carries.
MaxResultsBound == 3
\* Smallest max_results a request carries is -NegResultsBound.
NegResultsBound == 1
\* Most result containers on one search-engine page.
PageLen == 2

\* ------------------------------------------------------ Python helpers
Min(a, b) == IF a <= b THEN a ELSE b
Max(a, b) == IF a >= b THEN a ELSE b

\* seq[:n] of Python: a negative n counts from the end.
PySlice(seq, n) ==
  IF n >= 0 THEN SubSeq(seq, 1, Min(n, Len(seq)))
            ELSE SubSeq(seq, 1, Max(Len(seq) + n, 0))

\* range(n) of Python, as the sequence 0 .. n-1 (empty when n <= 0).
PyRange(n) == [i \in 1..Max(n, 0) |-> i - 1]

\* Mutant of PyFloorDiv: the division rounds up.
PyFloorDiv_RoundsUp(a, b) == (a + b - 1) \div b

\* a // b of Python for b > 0 (floor division).
PyFloorDiv(a, b) == a \div b

\* The concatenation of a sequence of sequences.
RECURSIVE Flatten(_)
Flatten(seqs) ==
  IF seqs = <<>> THEN <<>> ELSE Head(seqs) \o Flatten(Tail(seqs))

PyStr(chars) == [kind |-> "str", chars |-> chars, items |-> <<>>]
PyInt(digits) == [kind |-> "int", chars |-> digits, items |-> <<>>]
PyNone == [kind |-> "null", chars |-> <<>>, items |-> <<>>]
PyDict == [kind |-> "dict", chars |-> <<>>, items |-> <<>>]
PyList(items) == [kind |-> "list", chars |-> <<>>, items |-> items]

\* Whether iter(v) succeeds: for ... in v, and len(v).
PyIterable(v) == v.kind \in {"list", "str", "dict"}

\* What a for loop over v visits: a list's elements, a str's characters,
\* the keys of the (empty) dict.
PyItems(v) ==
  CASE v.kind = "list" -> v.items
    [] v.kind = "str" -> [i \in 1..Len(v.chars) |-> PyStr(<<v.chars[i]>>)]
    [] OTHER -> <<>>

UpperCase ==
  <<"A", "B", "C", "D", "E", "F", "G", "H", "I", "J", "K", "L", "M",
    "N", "O", "P", "Q", "R", "S", "T", "U", "V", "W", "X", "Y", "Z">>
LowerCase ==
  <<"a", "b", "c", "d", "e", "f", "g", "h", "i", "j", "k", "l", "m",
    "n", "o", "p", "q", "r", "s", "t", "u", "v", "w", "x", "y", "z">>

\* str.lower(), character by character.
LowerChar(c) ==
  IF \E i \in 1..26 : UpperCase[i] = c
    THEN LowerCase[CHOOSE i \in 1..26 : UpperCase[i] = c]
    ELSE c
PyLower(chars) == [i \in 1..Len(chars) |-> LowerChar(chars[i])]

\* needle in haystack, for two texts written one character per piece.
PyContains(needle, haystack) ==
  \E i \in 1..(Len(haystack) - Len(needle) + 1) :
    SubSeq(haystack, i, i + Len(needle) - 1) = needle

PyStartsWith(text, prefix) ==
  Len(text) >= Len(prefix) /\ SubSeq(text, 1, Len(prefix)) = prefix

Digits == <<"0", "1", "2", "3", "4", "5", "6", "7", "8", "9">>

\* str(n) for n >= 0, as used by the f-strings.
RECURSIVE IntText(_)
IntText(n) ==
  IF n < 10 THEN <<Digits[n + 1]>>
            ELSE IntText(n \div 10) \o <<Digits[(n % 10) + 1]>>

\* text.split(sep) for a one-character separator: the parts between the
\* separators, empty parts included.
RECURSIVE PySplit(_, _)
PySplit(text, sep) ==
  IF \E i \in 1..Len(text) : text[i] = sep
    THEN LET i == CHOOSE j \in 1..Len(text) :
                    text[j] = sep /\ \A k \in 1..(j - 1) : text[k] # sep
         IN  <<SubSeq(text, 1, i - 1)>>
               \o PySplit(SubSeq(text, i + 1, Len(text)), sep)
    ELSE <<text>>

\* --------------------------------------------------------------- inputs
\* str(text) written one character per piece.
Q_Empty == <<>>
Q_AI == <<"A", "I", "?">>
Q_Climate ==
  <<"C", "l", "i", "m", "a", "t", "e", " ", "C", "h", "a", "n", "g", "e">>
Q_Why == <<"W", "h", "y", "?">>
Q_Economics ==
  <<"c", "l", "i", "m", "a", "t", "e", " ",
    "e", "c", "o", "n", "o", "m", "i", "c", "s">>

\* The questions a request carries (ResearchQuery.question: any str).
Questions == <<Q_Empty, Q_AI, Q_Climate>>

\* The max_results a request carries (Optional[int]): None or an integer.
NoMaxResults == [isNone |-> TRUE, n |-> 0]
IntMaxResults(n) == [isNone |-> FALSE, n |-> n]
MaxResultsInputs ==
  {NoMaxResults}
    \cup {IntMaxResults(n) : n \in (0 - NegResultsBound)..MaxResultsBound}

\* The text of a JSON string literal token.
LitChars(tok) ==
  CASE tok = "\"Why?\"" -> Q_Why
    [] tok = "\"climate economics\"" -> Q_Economics
    [] tok = "\"AI\"" -> <<"A", "I">>
    [] OTHER -> <<>>
StringTokens == {"\"Why?\"", "\"climate economics\"", "\"AI\""}
WhitespaceTokens == {" ", "\n"}
\* The code-fence marker of three backquotes, as one token; the marker with
\* its language tag is this token followed by the token "json".
Fence == "FENCE"

\* The message contents the completion service may answer with, as token
\* sequences: empty, prose, arrays (bare and fenced), and JSON that parses
\* to something other than an array of strings.
ModelContents ==
  << <<>>,
     <<"Sure", " ", "[", "\"Why?\"", "]">>,
     <<"[", "\"climate economics\"", ",", " ", "\"Why?\"", "]">>,
     <<" ", Fence, "json", "\n", "[", "\"Why?\"", "]", "\n", Fence, "\n">>,
     <<Fence, "\n", "[", "\"Why?\"", "]", "\n", Fence>>,
     <<"[", "\"Why?\"", ",", "]">>,
     <<"[", "]">>,
     <<"5">>,
     <<"null">>,
     <<"{}">>,
     <<"\"AI\"">>,
     <<"[", "\"Why?\"", ",", "5", "]">> >>

\* What one chat.completions.create call does: raise, answer with a
\* message whose content is None, or answer with text.
LlmRaise == [kind |-> "raise", text |-> <<>>]
LlmNoContent == [kind |-> "none", text |-> <<>>]
LlmText(tokens) == [kind |-> "text", text |-> tokens]

\* ------------------------------------------------- _break_down_question
\* str.strip(): leading and trailing whitespace removed.
RECURSIVE PyStrip(_)
PyStrip(tokens) ==
  IF tokens = <<>> THEN <<>>
  ELSE IF Head(tokens) \in WhitespaceTokens THEN PyStrip(Tail(tokens))
  ELSE IF tokens[Len(tokens)] \in WhitespaceTokens
         THEN PyStrip(SubSeq(tokens, 1, Len(tokens) - 1))
  ELSE tokens

\* str.replace(marker, ""): every occurrence of the marker (a token
\* sequence) removed, scanning from the left.
RECURSIVE PyRemove(_, _)
PyRemove(tokens, marker) ==
  IF tokens = <<>> THEN <<>>
  ELSE IF PyStartsWith(tokens, marker)
    THEN PyRemove(SubSeq(tokens, Len(marker) + 1, Len(tokens)), marker)
  ELSE <<Head(tokens)>> \o PyRemove(Tail(tokens), marker)

\* The scalar a single JSON token stands for.
JsonScalar(tok) ==
  CASE tok \in StringTokens -> PyStr(LitChars(tok))
    [] tok = "5" -> PyInt(<<"5">>)
    [] tok = "null" -> PyNone
    [] tok = "{}" -> PyDict
IsJsonScalar(tok) == tok \in StringTokens \cup {"5", "null", "{}"}

\* json.loads(content): [ok, value]; ok = FALSE is JSONDecodeError.
\* Whitespace between tokens is skipped; a document is one scalar or one
\* array of scalars separated by commas (no trailing comma).
json_loads(tokens) ==
  LET NotSpace(t) == t \notin WhitespaceTokens
      toks == SelectSeq(tokens, NotSpace)
      n == Len(toks)
      inner == SubSeq(toks, 2, n - 1)
      m == Len(inner)
      fail == [ok |-> FALSE, value |-> PyNone]
  IN  IF n = 0 THEN fail
      ELSE IF n = 1
        THEN IF IsJsonScalar(toks[1])
               THEN [ok |-> TRUE, value |-> JsonScalar(toks[1])]
               ELSE fail
      ELSE IF toks[1] = "[" /\ toks[n] = "]"
        THEN IF m = 0 THEN [ok |-> TRUE, value |-> PyList(<<>>)]
             ELSE IF /\ m % 2 = 1
                     /\ \A i \in 1..m :
                          IF i % 2 = 1 THEN IsJsonScalar(inner[i])
                                       ELSE inner[i] = ","
               THEN [ok |-> TRUE,
                     value |-> PyList([i \in 1..((m + 1) \div 2) |->
                                         JsonScalar(inner[2 * i - 1])])]
               ELSE fail
      ELSE fail

\* The fallback of the except branch: [question].
FallbackSubQuestions(question_) == PyList(<<PyStr(question_)>>)

\* Lines 71-74: the content stripped, and its code-fence markers removed
\* when it starts with the marker tagged json.
CleanContent(text) ==
  LET stripped == PyStrip(text)
  IN  IF PyStartsWith(stripped, <<Fence, "json">>)
        THEN PyStrip(PyRemove(PyRemove(stripped, <<Fence, "json">>),
                              <<Fence>>))
        ELSE stripped

\* _break_down_question(question) given what the model call did: the
\* Python value handed back to conduct_research.  A call that raises and a
\* message without content (None has no strip()) end in the except branch,
\* as does a content json.loads rejects.
_break_down_question(question_, llm) ==
  IF llm.kind # "text" THEN FallbackSubQuestions(question_)
  ELSE LET parsed == json_loads(CleanContent(llm.text))
       IN  IF parsed.ok THEN parsed.value
                        ELSE FallbackSubQuestions(question_)

\* ------------------------------------------------------------ _search_web
\* A search result: title, link, snippet and source are texts, query the
\* characters of the query it answers.
SearchResult(title, link, snippet, source, query) ==
  [title |-> title, link |-> link, snippet |-> snippet,
   source |-> source, query |-> query]

\* What a result container of a page holds: the elements the parser looks
\* for ("hit"), none of them ("nohit"), or markup whose parsing raises.
ContainerKinds == {"hit", "nohit", "raise"}

\* The pages an engine may answer with: every sequence of at most PageLen
\* containers.
Pages == UNION {[1..n -> ContainerKinds] : n \in 0..PageLen}

\* What one requests.get does: raise (timeout, connection error), or answer
\* with a status code and a page.
HttpRaise == [kind |-> "raise", status |-> 0, page |-> <<>>]
HttpResponse(status, page) == [kind |-> "http", status |-> status, page |-> page]
EngineOutcomes ==
  {HttpRaise, HttpResponse(503, <<>>)}
    \cup {HttpResponse(st, p) : st \in {200, 202}, p \in Pages}

\* The href of the title anchor of the i-th primary container: a plain URL,
\* a redirect wrapper carrying the destination, no href at all, or a
\* redirect wrapper without destination.
PrimaryHref(i) ==
  CASE i % 4 = 1 -> <<"https:", "/", "/", "site1.org", "/", "page">>
    [] i % 4 = 2 -> <<"/", "l", "/", "?", "uddg", "=", "https", "%3A", "%2F",
                      "%2F", "site2.org", "%2F", "p", "&", "rut", "=", "1">>
    [] i % 4 = 3 -> <<>>
    [] OTHER -> <<"/", "l", "/", "?", "kh", "=", "1">>

\* urllib.parse.unquote on the pieces of a query-string value.
Unquote(text) ==
  [i \in 1..Len(text) |->
     CASE text[i] = "%3A" -> ":"
       [] text[i] = "%2F" -> "/"
       [] text[i] = "+" -> " "
       [] OTHER -> text[i]]

\* urllib.parse.parse_qs(text): the sequence of [key, value] of the
\* name=value fields separated by "&", fields with a blank value dropped.
parse_qs(text) ==
  LET fields == PySplit(text, "&")
      HasValue(f) ==
        \E i \in 1..Len(f) : f[i] = "=" /\ i < Len(f)
      kept == SelectSeq(fields, HasValue)
      Field(f) ==
        LET i == CHOOSE j \in 1..Len(f) :
                   f[j] = "=" /\ \A k \in 1..(j - 1) : f[k] # "="
        IN  [key |-> SubSeq(f, 1, i - 1),
             value |-> Unquote(SubSeq(f, i + 1, Len(f)))]
  IN  [i \in 1..Len(kept) |-> Field(kept[i])]

\* Lines 108-113: a link that is a redirect wrapper is replaced by the
\* first value of its uddg parameter, when it has one.
CleanLink(link) ==
  IF PyStartsWith(link, <<"/", "l", "/", "?">>)
    THEN LET parsed == parse_qs(SubSeq(link, 5, Len(link)))
             IsUddg(f) == f.key = <<"uddg">>
             uddg == SelectSeq(parsed, IsUddg)
         IN  IF uddg # <<>> THEN uddg[1].value ELSE link
    ELSE link

\* link.split('/')[2] if '//' in link else link
SourceOf(link) ==
  IF PyContains(<<"/", "/">>, link) THEN PySplit(link, "/")[3] ELSE link

\* Lines 96-124: the first max_results containers of the page, each with a
\* title and a snippet element turned into a record, the others skipped.
ParsePrimary(page, query, max_results) ==
  LET results == PySlice(page, max_results)
      Parsed(i) ==
        IF results[i] = "hit"
          THEN LET link == CleanLink(PrimaryHref(i))
               IN  <<SearchResult(<<"DDG result ">> \o IntText(i), link,
                                  <<"DDG snippet ">> \o IntText(i),
                                  SourceOf(link), query)>>
          ELSE <<>>
  IN  Flatten([i \in 1..Len(results) |-> Parsed(i)])

\* Lines 150-171: the secondary engine's containers; the snippet span is
\* present in the odd containers and absent from the even ones.
ParseSecondary(page, query, max_results) ==
  LET results == PySlice(page, max_results)
      Parsed(i) ==
        IF results[i] = "hit"
          THEN LET link == <<"https:", "/", "/", "g">> \o IntText(i)
                             \o <<".example", "/", "doc">>
                   snippet == IF i % 2 = 1
                                THEN <<"Google snippet ">> \o IntText(i)
                                ELSE <<"No description available">>
               IN  <<SearchResult(<<"Google result ">> \o IntText(i), link,
                                  snippet, SourceOf(link), query)>>
          ELSE <<>>
  IN  Flatten([i \in 1..Len(results) |-> Parsed(i)])

\* -------------------------------------------------- _generate_mock_results
Canned(title, source, snippet) ==
  [title |-> <<title>>, source |-> <<source>>, snippet |-> <<snippet>>]

\* The topics dictionary, in its insertion order.
topics ==
  << [topic |-> <<"c", "l", "i", "m", "a", "t", "e", " ", "c", "h", "a", "n", "g", "e">>,
      results |->
        << Canned("Climate Change Overview - EPA", "epa.gov",
                  "Climate change refers to long-term shifts in global temperatures and weather patterns."),
           Canned("Global Warming Facts - NASA", "nasa.gov",
                  "Scientific evidence shows that human activities are the primary cause of recent climate change."),
           Canned("Climate Change Impacts - IPCC", "ipcc.ch",
                  "Climate change affects ecosystems, human health, and economic systems worldwide.") >>],
     [topic |-> 
                <<"a", "r", "t", "i", "f", "i", "c", "i", "a", "l", " ", "i", "n", "t", "e", "l", "l", "i", "g", "e", "n", "c", "e">>,
      results |->
        << Canned("What is Artificial Intelligence? - MIT", "mit.edu",
                  "AI is the simulation of human intelligence processes by machines and computer systems."),
           Canned("Machine Learning Basics - Stanford", "stanford.edu",
                  "Machine learning is a subset of AI that enables computers to learn from data."),
           Canned("AI Applications - IEEE", "ieee.org",
                  "AI applications span across healthcare, finance, transportation, and entertainment.") >>],
     [topic |-> <<"e", "c", "o", "n", "o", "m", "i", "c">>,
      results |->
        << Canned("Economic Principles - World Bank", "worldbank.org",
                  "Economic analysis examines how societies allocate scarce resources."),
           Canned("Global Economic Trends - IMF", "imf.org",
                  "Current economic indicators show varying growth patterns across regions."),
           Canned("Economic Policy Impact - OECD", "oecd.org",
                  "Economic policies significantly influence market dynamics and social outcomes.") >>] >>

\* Lines 205-210: the results of the first topic found in the lowered
\* query, or the empty sequence (None) when there is none.
RelevantTopic(query) ==
  LET query_lower == PyLower(query)
      Matches(t) == PyContains(t.topic, query_lower)
      found == SelectSeq(topics, Matches)
  IN  IF found # <<>> THEN found[1].results ELSE <<>>

\* Lines 217-224: the i-th generic result (i counted from 0).
GenericResult(i, query) ==
  SearchResult(<<"Research Result ">> \o IntText(i + 1) \o <<": ">> \o query,
               <<"https:", "/", "/", "example.com", "/", "research-">>
                 \o IntText(i + 1),
               <<"This is a research finding related to ">> \o query
                 \o <<". The information provides insights and analysis on the topic.">>,
               <<"research-source-">> \o IntText(i + 1) \o <<".com">>,
               query)

\* Lines 227-230: the query added, and the link made from the source.
WithQueryAndLink(result, query) ==
  SearchResult(result.title, <<"https:", "/", "/">> \o result.source,
               result.snippet, result.source, query)

\* Mutant of _generate_mock_results: the generic loop runs once too often.
_generate_mock_results_OffByOne(query, max_results) ==
  LET relevant_topic == RelevantTopic(query)
  IN  IF relevant_topic # <<>>
        THEN LET cut == PySlice(relevant_topic, max_results)
             IN  [i \in 1..Len(cut) |-> WithQueryAndLink(cut[i], query)]
        ELSE LET r == PyRange(max_results + 1)
             IN  [i \in 1..Len(r) |-> GenericResult(r[i], query)]

\* _generate_mock_results(query, max_results) for a str query and an
\* integer max_results.
_generate_mock_results(query, max_results) ==
  LET relevant_topic == RelevantTopic(query)
  IN  IF relevant_topic # <<>>
        THEN LET cut == PySlice(relevant_topic, max_results)
             IN  [i \in 1..Len(cut) |-> WithQueryAndLink(cut[i], query)]
        ELSE LET r == PyRange(max_results)
             IN  [i \in 1..Len(r) |-> GenericResult(r[i], query)]

\* ---------------------------------------------------- _summarize_findings
\* What the completion service may answer the summary prompt with.
SummaryContents ==
  << <<" ", "Findings", " ", "[Source 1]", ".", "\n">>,
     <<"No sources were needed.">>,
     <<>> >>

ErrorSummary == <<"Error generating summary. Please try again.">>

\* Lines 238-247: one Source per search result, numbered from 1.
Source(id, result) ==
  [id |-> id, title |-> result.title, url |-> result.link,
   snippet |-> result.snippet]
\* Mutant of BuildSources: the ids count from 0.
BuildSources_ZeroBased(search_results) ==
  [i \in 1..Len(search_results) |-> Source(i - 1, search_results[i])]
BuildSources(search_results) ==
  [i \in 1..Len(search_results) |-> Source(i, search_results[i])]

\* Mutant of _summarize_findings: the except branch returns no sources.
_summarize_findings_LosesSources(search_results, llm) ==
  IF llm.kind = "text"
    THEN [summary |-> PyStrip(llm.text),
          sources |-> BuildSources(search_results)]
    ELSE [summary |-> ErrorSummary, sources |-> <<>>]

\* _summarize_findings(main_question, sub_questions, search_results) given
\* what the model call did: the pair (summary, sources).
_summarize_findings(search_results, llm) ==
  LET sources == BuildSources(search_results)
  IN  IF llm.kind = "text"
        THEN [summary |-> PyStrip(llm.text), sources |-> sources]
        ELSE [summary |-> ErrorSummary, sources |-> sources]

\* ------------------------------------------------------------------- state
VARIABLES
  pc,                 \* where conduct_research stands (lines 29-53)
  question,           \* ResearchQuery.question (main.py line 29)
  max_results,        \* ResearchQuery.max_results (main.py line 30)
  research_id,        \* the uuid of the call (line 30)
  sub_questions,      \* what _break_down_question returned (line 33)
  idx,                \* position of the for loop of line 37
  in_try,             \* _fallback_search was called from line 128 (in the try)
  all_search_results, \* the aggregated results (lines 36-39)
  summary, sources,   \* what _summarize_findings returned (line 42)
  collection,         \* the documents of the vector store (lines 24-27)
  response,           \* what the HTTP handler answered (main.py lines 44-53)
  events,             \* the stages of the call in the order they ran
  search_log,         \* one entry per _search_web call: query, cap, tiers tried,
                      \* status and returned results
  decompose_llm,      \* what the model call of lines 65-69 did
  summary_llm,        \* what the model call of lines 270-275 did
  store_failed,       \* whether collection.add raised (lines 287-298)
  similar             \* the last get_similar_research call (lines 300-309)

vars ==
  <<pc, question, max_results, research_id, sub_questions, idx, in_try,
    all_search_results, summary, sources, collection, response, events,
    search_log, decompose_llm, summary_llm, store_failed, similar>>

NoResponse ==
  [status |-> 0, question |-> <<>>, sub_questions |-> PyNone,
   summary |-> <<>>, sources |-> <<>>, research_id |-> ""]
\* main.py line 53: HTTPException(status_code=500).
ErrorResponse == [NoResponse EXCEPT !.status = 500]

Init ==
  /\ pc = "idle"
  /\ question = <<>>
  /\ max_results = NoMaxResults
  /\ research_id = ""
  /\ sub_questions = PyNone
  /\ idx = 1
  /\ in_try = FALSE
  /\ all_search_results = <<>>
  /\ summary = <<>>
  /\ sources = <<>>
  /\ collection = <<>>
  /\ response = NoResponse
  /\ events = <<>>
  /\ search_log = <<>>
  /\ decompose_llm = LlmRaise
  /\ summary_llm = LlmRaise
  /\ store_failed = FALSE
  /\ similar = [called |-> FALSE, failed |-> FALSE, results |-> <<>>]

\* ------------------------------------------------------- conduct_research
\* main.py lines 45-47 and line 30: the request arrives and the call gets
\* its id.
ReceiveRequest(q, m) ==
  /\ pc = "idle"
  /\ pc' = "decompose"
  /\ question' = q
  /\ max_results' = m
  /\ research_id' = "uuid4"
  /\ UNCHANGED <<sub_questions, idx, in_try, all_search_results, summary,
                 sources, collection, response, events, search_log,
                 decompose_llm, summary_llm, store_failed, similar>>

\* An exception leaves conduct_research: main.py lines 52-53.
RaiseToHttp(log) ==
  /\ pc' = "done"
  /\ response' = ErrorResponse
  /\ events' = log \o <<"error">>

\* Mutant of LoopHead: the loop ends one element early.
LoopHead_StopsEarly(sq, i, log, slog) ==
  IF ~PyIterable(sq) THEN
    /\ RaiseToHttp(log)
    /\ search_log' = slog
    /\ UNCHANGED in_try
  ELSE IF i >= Len(PyItems(sq)) THEN
    /\ pc' = "summarize"
    /\ events' = log
    /\ search_log' = slog
    /\ UNCHANGED <<in_try, response>>
  ELSE IF max_results.isNone THEN
    /\ RaiseToHttp(log)
    /\ search_log' = slog
    /\ UNCHANGED in_try
  ELSE
    /\ pc' = "primary"
    /\ events' = log \o <<"search_begin">>
    /\ search_log' =
         Append(slog,
                [query |-> PyItems(sq)[i],
                 cap |-> PyFloorDiv(max_results.n, Len(PyItems(sq))),
                 tiers |-> <<>>, status |-> "running", results |-> <<>>])
    /\ in_try' = FALSE
    /\ UNCHANGED response

\* Lines 37-38 with the loop at position i, after the events log and the
\* search log slog: iterating a value that is not iterable raises, the loop
\* ends after the last element, and dividing None raises; otherwise
\* _search_web is called for the i-th element.
LoopHead(sq, i, log, slog) ==
  IF ~PyIterable(sq) THEN
    /\ RaiseToHttp(log)
    /\ search_log' = slog
    /\ UNCHANGED in_try
  ELSE IF i > Len(PyItems(sq)) THEN
    /\ pc' = "summarize"
    /\ events' = log
    /\ search_log' = slog
    /\ UNCHANGED <<in_try, response>>
  ELSE IF max_results.isNone THEN
    /\ RaiseToHttp(log)
    /\ search_log' = slog
    /\ UNCHANGED in_try
  ELSE
    /\ pc' = "primary"
    /\ events' = log \o <<"search_begin">>
    /\ search_log' =
         Append(slog,
                [query |-> PyItems(sq)[i],
                 cap |-> PyFloorDiv(max_results.n, Len(PyItems(sq))),
                 tiers |-> <<>>, status |-> "running", results |-> <<>>])
    /\ in_try' = FALSE
    /\ UNCHANGED response

\* Lines 33-38: the model call of _break_down_question, and the loop entered.
Decompose(llm) ==
  /\ pc = "decompose"
  /\ sub_questions' = _break_down_question(question, llm)
  /\ decompose_llm' = llm
  /\ idx' = 1
  /\ LoopHead(sub_questions', 1, events \o <<"decompose">>, search_log)
  /\ UNCHANGED <<question, max_results, research_id, all_search_results,
                 summary, sources, collection, summary_llm, store_failed,
                 similar>>

\* An entry of a search's tier log: the tier attempted and the number of
\* results it yielded (none when it failed).
Tier(name, results) == [tier |-> name, count |-> Len(results)]

\* The _search_web call in progress.
CurrentSearch == search_log[Len(search_log)]
CloseSearch(tiers, status, results) ==
  [search_log EXCEPT ![Len(search_log)] =
     [@ EXCEPT !.tiers = tiers, !.status = status, !.results = results]]

\* Lines 39 and 37: _search_web returned results; they are appended and the
\* loop goes on.
SearchReturns(tiers, results) ==
  /\ all_search_results' = all_search_results \o results
  /\ idx' = idx + 1
  /\ LoopHead(sub_questions, idx + 1, events \o <<"search_end">>,
              CloseSearch(tiers, "returned", results))

\* An exception leaves _search_web, and so conduct_research.
SearchRaises(tiers) ==
  /\ RaiseToHttp(events)
  /\ search_log' = CloseSearch(tiers, "raised", <<>>)
  /\ UNCHANGED <<all_search_results, idx, in_try>>

\* Lines 85-124, the try block of _search_web up to the parsed results:
\* [raised, results].  quote_plus raises on a query that is not a str, the
\* request may raise, and raise_for_status raises on a 4xx or 5xx status.
PrimarySearch(query, max_results_, outcome) ==
  IF query.kind # "str" \/ outcome.kind = "raise" \/ outcome.status >= 400
    THEN [raised |-> TRUE, results |-> <<>>]
    ELSE [raised |-> FALSE,
          results |-> ParsePrimary(outcome.page, query.chars, max_results_)]

\* Mutant of SearchPrimary: _fallback_search is called whatever the
\* primary engine yielded.
SearchPrimary_AlwaysFallsBack(outcome) ==
  /\ pc = "primary"
  /\ LET cur == CurrentSearch
         got == PrimarySearch(cur.query, cur.cap, outcome)
     IN  /\ pc' = "secondary"
         /\ in_try' = ~got.raised
         /\ search_log' =
              CloseSearch(Append(cur.tiers, Tier("primary", got.results)),
                          "running", <<>>)
         /\ UNCHANGED <<all_search_results, idx, events, response>>
  /\ UNCHANGED <<question, max_results, research_id, sub_questions, summary,
                 sources, collection, decompose_llm, summary_llm,
                 store_failed, similar>>

\* Lines 84-135 up to the first return or the call of _fallback_search.
SearchPrimary(outcome) ==
  /\ pc = "primary"
  /\ LET cur == CurrentSearch
         got == PrimarySearch(cur.query, cur.cap, outcome)
         tiers == Append(cur.tiers, Tier("primary", got.results))
     IN  IF ~got.raised /\ got.results # <<>>
           THEN SearchReturns(tiers, got.results)
           ELSE /\ pc' = "secondary"
                /\ in_try' = ~got.raised
                /\ search_log' = CloseSearch(tiers, "running", <<>>)
                /\ UNCHANGED <<all_search_results, idx, events, response>>
  /\ UNCHANGED <<question, max_results, research_id, sub_questions, summary,
                 sources, collection, decompose_llm, summary_llm,
                 store_failed, similar>>

\* Mutant of _fallback_search: the parsed results are returned even when
\* there are none, and the mock generator is never used.
_fallback_search_NoMock(query, max_results_, outcome) ==
  LET search_results ==
        IF query.kind = "str" /\ outcome.kind = "http" /\ outcome.status = 200
          THEN ParseSecondary(outcome.page, query.chars, max_results_)
          ELSE <<>>
  IN  [raised |-> FALSE, results |-> search_results,
       tiers |-> <<Tier("secondary", search_results)>>]

\* _fallback_search(query, max_results) given what the request did:
\* [raised, results, tiers].  Everything in the try block that fails is
\* passed over; the mock generator is outside it, and raises on a query
\* that has no lower().
_fallback_search(query, max_results_, outcome) ==
  LET search_results ==
        IF query.kind = "str" /\ outcome.kind = "http" /\ outcome.status = 200
          THEN ParseSecondary(outcome.page, query.chars, max_results_)
          ELSE <<>>
  IN  IF search_results # <<>>
        THEN [raised |-> FALSE, results |-> search_results,
              tiers |-> <<Tier("secondary", search_results)>>]
      ELSE IF query.kind # "str"
        THEN [raised |-> TRUE, results |-> <<>>,
              tiers |-> <<Tier("secondary", <<>>), Tier("mock", <<>>)>>]
      ELSE LET mock_results ==
                 _generate_mock_results(query.chars, max_results_)
           IN  [raised |-> FALSE, results |-> mock_results,
                tiers |-> <<Tier("secondary", <<>>),
                            Tier("mock", mock_results)>>]

\* Lines 126-135 from the call of _fallback_search on: its result is
\* returned; an exception it raises inside the try block (line 128) is
\* caught at line 132 and _fallback_search is called again (line 135), one
\* it raises there leaves _search_web.
SearchSecondary(outcome) ==
  /\ pc = "secondary"
  /\ LET cur == CurrentSearch
         got == _fallback_search(cur.query, cur.cap, outcome)
         tiers == cur.tiers \o got.tiers
     IN  IF ~got.raised THEN SearchReturns(tiers, got.results)
         ELSE IF in_try
           THEN /\ pc' = "secondary"
                /\ in_try' = FALSE
                /\ search_log' = CloseSearch(tiers, "running", <<>>)
                /\ UNCHANGED <<all_search_results, idx, events, response>>
         ELSE SearchRaises(tiers)
  /\ UNCHANGED <<question, max_results, research_id, sub_questions, summary,
                 sources, collection, decompose_llm, summary_llm,
                 store_failed, similar>>

\* Line 42: the model call of _summarize_findings.
Summarize(llm) ==
  /\ pc = "summarize"
  /\ LET got == _summarize_findings(all_search_results, llm)
     IN  /\ summary' = got.summary
         /\ sources' = got.sources
  /\ summary_llm' = llm
  /\ pc' = "persist"
  /\ events' = Append(events, "summarize")
  /\ UNCHANGED <<question, max_results, research_id, sub_questions, idx,
                 in_try, all_search_results, collection, response,
                 search_log, decompose_llm, store_failed, similar>>

\* The document collection.add stores (lines 287-296).
StoredDocument ==
  [id |-> research_id, document |-> summary,
   metadata |-> [research_id |-> research_id, question |-> question,
                 timestamp |-> "now", source_count |-> Len(sources)]]

\* Mutant of _store_results: the exception of collection.add is not caught.
_store_results_Propagates(add_raises) ==
  IF add_raises THEN [raised |-> TRUE, collection |-> collection]
                ELSE [raised |-> FALSE,
                      collection |-> Append(collection, StoredDocument)]

\* _store_results given whether collection.add raises: [raised, collection].
_store_results(add_raises) ==
  IF add_raises THEN [raised |-> FALSE, collection |-> collection]
                ELSE [raised |-> FALSE,
                      collection |-> Append(collection, StoredDocument)]

\* Lines 47-53 of research_agent.py, returned by main.py line 51.
ResearchResponse ==
  [status |-> 200, question |-> question, sub_questions |-> sub_questions,
   summary |-> summary, sources |-> sources, research_id |-> research_id]

\* Lines 45-53: the store attempt, then the response.
Persist(add_raises) ==
  /\ pc = "persist"
  /\ LET got == _store_results(add_raises)
     IN  /\ collection' = got.collection
         /\ IF got.raised
              THEN RaiseToHttp(Append(events, "store"))
              ELSE /\ pc' = "done"
                   /\ response' = ResearchResponse
                   /\ events' = events \o <<"store", "respond">>
  /\ store_failed' = add_raises
  /\ UNCHANGED <<question, max_results, research_id, sub_questions, idx,
                 in_try, all_search_results, summary, sources, search_log,
                 decompose_llm, summary_llm, similar>>

\* The limits get_similar_research is called with (default 3).
Limits == {1, 3}

\* get_similar_research(question, limit) given whether collection.query
\* raises: the store's answer, or [] when it raised.
get_similar_research(limit, query_raises) ==
  IF query_raises THEN <<>> ELSE PySlice(collection, limit)

GetSimilar(limit, query_raises) ==
  /\ similar' = [called |-> TRUE, failed |-> query_raises,
                 results |-> get_similar_research(limit, query_raises)]
  /\ UNCHANGED <<pc, question, max_results, research_id, sub_questions, idx,
                 in_try, all_search_results, summary, sources, collection,
                 response, events, search_log, decompose_llm, summary_llm,
                 store_failed>>

LlmOutcomes(contents) ==
  {LlmRaise, LlmNoContent} \cup {LlmText(contents[i]) : i \in 1..Len(contents)}

Next ==
  \/ \E i \in 1..Len(Questions), m \in MaxResultsInputs :
       ReceiveRequest(Questions[i], m)
  \/ \E llm \in LlmOutcomes(ModelContents) : Decompose(llm)
  \/ \E outcome \in EngineOutcomes : SearchPrimary(outcome)
  \/ \E outcome \in EngineOutcomes : SearchSecondary(outcome)
  \/ \E llm \in LlmOutcomes(SummaryContents) : Summarize(llm)
  \/ \E add_raises \in BOOLEAN : Persist(add_raises)
  \/ \E limit \in Limits, query_raises \in BOOLEAN :
       GetSimilar(limit, query_raises)

Spec == Init /\ [][Next]_vars

\* ------------------------------------------------------------ properties
Has(log, e) == \E i \in 1..Len(log) : log[i] = e
Count(log, e) == Cardinality({i \in 1..Len(log) : log[i] = e})
IsPrefix(a, b) == Len(a) <= Len(b) /\ SubSeq(b, 1, Len(a)) = a
Decomposed == pc \notin {"idle", "decompose"}
Summarized == Has(events, "summarize")
Responded == pc = "done" /\ response.status = 200
TierNames(e) == [j \in 1..Len(e.tiers) |-> e.tiers[j].tier]
AllFieldsPresent(r) ==
  r.title # <<>> /\ r.link # <<>> /\ r.snippet # <<>> /\ r.source # <<>>
\* The results of the search_log entries, concatenated in call order.
AggregatedFromLog ==
  Flatten([i \in 1..Len(search_log) |-> search_log[i].results])
\* The searches in which the mock generator ran and returned.
MockReturned(e) ==
  /\ e.status = "returned"
  /\ Len(e.tiers) > 0
  /\ e.tiers[Len(e.tiers)].tier = "mock"
\* The results are the canned set of a topic found in the query, cut to n.
DrawnFromTopic(e, n) ==
  \E t \in 1..Len(topics) :
    /\ PyContains(topics[t].topic, PyLower(e.query.chars))
    /\ Len(e.results) = Min(n, Len(topics[t].results))
    /\ \A i \in 1..Len(e.results) :
         /\ e.results[i].title = topics[t].results[i].title
         /\ e.results[i].snippet = topics[t].results[i].snippet
         /\ e.results[i].source = topics[t].results[i].source
HasKnownTopic(e) ==
  \E t \in 1..Len(topics) :
    PyContains(topics[t].topic, PyLower(e.query.chars))

\* C1: a research call never fails: whatever the model, the search engines
\* and the vector store do, the call ends with a response carrying
\* question, sub_questions, summary, sources and research_id, and no
\* exception reaches the HTTP boundary (no status 500).
C1_NeverFails ==
  pc = "done" =>
    /\ response.status = 200
    /\ response.question = question
    /\ response.research_id # ""

\* C2: _break_down_question returns a non-empty sequence of sub-questions
\* for any model behaviour, and exactly [question] when the model call
\* raises, answers nothing, or answers text that is not parseable JSON.
C2_NonEmptyDecomposition ==
  Decomposed =>
    /\ PyIterable(sub_questions)
    /\ Len(PyItems(sub_questions)) >= 1
    /\ (\/ decompose_llm.kind # "text"
        \/ PyStrip(decompose_llm.text) = <<>>
        \/ ~json_loads(CleanContent(decompose_llm.text)).ok
          => sub_questions = FallbackSubQuestions(question))

\* C3: for a str query and a cap > 0, whatever the two engines do,
\* _search_web does not raise and does not return an empty sequence.
C3_SearchNeverEmpty ==
  \A i \in 1..Len(search_log) :
    LET e == search_log[i]
    IN  e.query.kind = "str" =>
          /\ e.status # "raised"
          /\ (e.status = "returned" /\ e.cap > 0 => e.results # <<>>)
\* A search with cap > 0 whose two engines yielded nothing has returned.
C3_Witness ==
  \E i \in 1..Len(search_log) :
    LET e == search_log[i]
    IN  /\ e.query.kind = "str" /\ e.cap > 0 /\ e.status = "returned"
        /\ TierNames(e) = <<"primary", "secondary", "mock">>
        /\ e.results # <<>>

\* C4: in every response the sources are as many as the search results
\* aggregated over the sub-questions, sources[i].id is i (counted from 1),
\* and sources[i] carries the title, link (as url) and snippet of the i-th
\* aggregated result.
C4_SourcesMatchResults ==
  Responded =>
    /\ Len(response.sources) = Len(AggregatedFromLog)
    /\ \A i \in 1..Len(response.sources) :
         /\ response.sources[i].id = i
         /\ response.sources[i].title = AggregatedFromLog[i].title
         /\ response.sources[i].url = AggregatedFromLog[i].link
         /\ response.sources[i].snippet = AggregatedFromLog[i].snippet
\* A response with sources from two different searches.
C4_Witness ==
  /\ Responded
  /\ Len(response.sources) >= 2
  /\ Len(search_log) = 2
  /\ search_log[1].results # <<>>
  /\ search_log[2].results # <<>>

\* C5: when the model call of the summarizer raises, the summary is the
\* fixed error message and the sources are the ones returned when the
\* model call succeeds on the same search results.
C5_SummaryFailureKeepsSources ==
  Summarized /\ summary_llm.kind # "text" =>
    /\ summary = <<"Error generating summary. Please try again.">>
    /\ \A i \in 1..Len(SummaryContents) :
         sources = _summarize_findings(all_search_results,
                                       LlmText(SummaryContents[i])).sources
    /\ Len(sources) = Len(all_search_results)
\* The model call of the summarizer raised with search results at hand.
C5_Witness ==
  /\ Summarized
  /\ summary_llm.kind # "text"
  /\ Len(all_search_results) >= 2

\* C6: when the vector store is unavailable, _store_results returns
\* normally and get_similar_research returns an empty sequence; the
\* response carries the summary, sources and research_id computed before
\* the store attempt.
C6_StoreFailureSwallowed ==
  /\ store_failed =>
       /\ Responded
       /\ response.summary = summary
       /\ response.sources = BuildSources(all_search_results)
       /\ response.research_id = research_id
       /\ events[Len(events)] = "respond"
  /\ similar.called /\ similar.failed => similar.results = <<>>
\* The store write and a similarity query both failed in one run.
C6_Witness ==
  /\ store_failed
  /\ Responded
  /\ Len(response.sources) >= 1
  /\ similar.called /\ similar.failed

\* C7 as stated: for any integer cap n the mock generator returns at most
\* n results, each with title, link, snippet and source non-empty, and for
\* a query containing a known topic keyword the topic's canned set cut to n.
C7_MockAnyCap ==
  \A i \in 1..Len(search_log) :
    LET e == search_log[i]
    IN  MockReturned(e) =>
          /\ Len(e.results) <= e.cap
          /\ \A j \in 1..Len(e.results) : AllFieldsPresent(e.results[j])
          /\ (HasKnownTopic(e) => DrawnFromTopic(e, e.cap))
\* C7 amended: the same for any cap n >= 0.
C7_MockNonNegativeCap ==
  \A i \in 1..Len(search_log) :
    LET e == search_log[i]
    IN  MockReturned(e) /\ e.cap >= 0 =>
          /\ Len(e.results) <= e.cap
          /\ \A j \in 1..Len(e.results) : AllFieldsPresent(e.results[j])
          /\ (HasKnownTopic(e) => DrawnFromTopic(e, e.cap))
\* The mock generator answered a query of a known topic and one of none,
\* each with at least one result.
C7_Witness ==
  /\ \E i \in 1..Len(search_log) :
       /\ MockReturned(search_log[i])
       /\ HasKnownTopic(search_log[i])
       /\ search_log[i].results # <<>>
  /\ \E i \in 1..Len(search_log) :
       /\ MockReturned(search_log[i])
       /\ ~HasKnownTopic(search_log[i])
       /\ search_log[i].results # <<>>

\* C8: within one _search_web call the tiers run in the order primary,
\* secondary, mock, each at most once, and a tier is attempted only after
\* every tier before it yielded no result.
C8_TiersInOrderOnce ==
  \A i \in 1..Len(search_log) :
    LET e == search_log[i]
    IN  /\ IsPrefix(TierNames(e), <<"primary", "secondary", "mock">>)
        /\ \A j \in 1..(Len(e.tiers) - 1) : e.tiers[j].count = 0
        /\ (e.status = "returned" =>
              /\ e.tiers # <<>>
              /\ Len(e.results) = e.tiers[Len(e.tiers)].count)
\* One search stopped at each tier: the primary, the secondary, the mock.
C8_Witness ==
  /\ Len(search_log) = 2
  /\ search_log[1].status = "returned"
  /\ TierNames(search_log[1]) = <<"primary", "secondary">>
  /\ search_log[1].results # <<>>
  /\ search_log[2].status = "returned"
  /\ TierNames(search_log[2]) = <<"primary", "secondary", "mock">>
  /\ search_log[2].results # <<>>

\* The decomposition is k >= 1 sub-questions, each a str, and max_results
\* is an integer.
StringSubQuestions ==
  /\ PyIterable(sub_questions)
  /\ Len(PyItems(sub_questions)) >= 1
  /\ \A i \in 1..Len(PyItems(sub_questions)) :
       PyItems(sub_questions)[i].kind = "str"
  /\ ~max_results.isNone
\* Every sub-question was searched once, in order, with cap
\* floor(max_results / k), each search kept to its cap, and the aggregate
\* is the concatenation of the searches' results, at most max_results long.
FanOutAsClaimed ==
  LET items == PyItems(sub_questions)
      k == Len(items)
  IN  /\ Responded
      /\ Len(search_log) = k
      /\ \A i \in 1..k :
           /\ search_log[i].query = items[i]
           /\ search_log[i].cap * k <= max_results.n
           /\ max_results.n < (search_log[i].cap + 1) * k
           /\ search_log[i].status = "returned"
           /\ Len(search_log[i].results) <= search_log[i].cap
      /\ all_search_results = AggregatedFromLog
      /\ Len(all_search_results) <= max_results.n

\* C9 as stated: for a decomposition into k >= 1 sub-questions every
\* sub-question is searched exactly once with cap floor(max_results / k),
\* each search returns at most that cap, and the aggregate is the
\* concatenation in sub-question order, never longer than max_results.
C9_FanOut ==
  pc = "done" /\ StringSubQuestions => FanOutAsClaimed
\* C9 amended: the same when max_results >= 0.
C9_FanOutNonNegative ==
  pc = "done" /\ StringSubQuestions /\ max_results.n >= 0 => FanOutAsClaimed
\* Two sub-questions searched with cap 1 out of max_results 3.
C9_Witness ==
  /\ Responded
  /\ StringSubQuestions
  /\ Len(PyItems(sub_questions)) = 2
  /\ max_results.n = 3
  /\ Len(all_search_results) = 2

\* The stage of an event, in the order DECOMPOSE, SEARCH, SUMMARIZE,
\* PERSIST, RESPOND.
StageRank(e) ==
  CASE e = "decompose" -> 1
    [] e \in {"search_begin", "search_end"} -> 2
    [] e = "summarize" -> 3
    [] e = "store" -> 4
    [] e = "respond" -> 5
    [] OTHER -> 6

\* C10: within one research call the stages run in the order DECOMPOSE,
\* SEARCH, SUMMARIZE, PERSIST, RESPOND: no search before the decomposition
\* is complete, the summary only after every sub-question's search is
\* complete, one store write after the summary, the response after it.
C10_StagesInOrder ==
  /\ \A i \in 1..(Len(events) - 1) : StageRank(events[i]) <= StageRank(events[i + 1])
  /\ Count(events, "decompose") <= 1
  /\ (events # <<>> => events[1] = "decompose")
  /\ \A i \in 1..Len(events) :
       events[i] = "search_begin" =>
         Count(SubSeq(events, 1, i - 1), "search_begin")
           = Count(SubSeq(events, 1, i - 1), "search_end")
  /\ (Summarized =>
        /\ Count(events, "summarize") = 1
        /\ Count(events, "search_begin") = Len(PyItems(sub_questions))
        /\ Count(events, "search_end") = Len(PyItems(sub_questions))
        /\ \A i \in 1..Len(search_log) : search_log[i].status = "returned")
  /\ Count(events, "store") <= 1
  /\ (Has(events, "store") => Summarized)
  /\ (Responded =>
        /\ Len(events) >= 3
        /\ SubSeq(events, Len(events) - 2, Len(events))
             = <<"summarize", "store", "respond">>)
  /\ (response.status = 200 => Has(events, "respond"))
\* A call over two sub-questions ran all five stages.
C10_Witness ==
  /\ Responded
  /\ Count(events, "search_end") = 2
  /\ events[Len(events)] = "respond"

====
